---- MODULE Spec2Model ----
(***************************************************************************)
(* A model of the nebulae renderer (Bradshaw/nebulae).                     *)
(*                                                                         *)
(*   SpecBump : RawImage::bump called by concurrent callers, one atomic    *)
(*              operation (fetch_add, fetch_max) per step.                 *)
(*   Spec     : main / render_nebulabrot / write_image: the orchestrator   *)
(*              thread, the worker threads of each pass, the mpsc channel  *)
(*              of the pass and the image-writing threads.                 *)
(*                                                                         *)
(* Plane coordinates (f64 in the source) are fixed-point integers in       *)
(* thousandths: 1999 stands for 1.999, -2000 for -2.0.                     *)
(***************************************************************************)
EXTENDS Integers, Sequences, FiniteSets, TLC

VARIABLES
    \* RawImage (raw_image.rs)
    width,              \* the width RawImage::new was given (not stored by the struct)
    height,             \* RawImage.height
    data,               \* RawImage.data : index -> u32
    maximum,            \* RawImage.maximum
    \* concurrent callers of bump (SpecBump)
    callers,            \* caller -> [pc, new_value]
    issued,             \* history: <<x, y, channel>> -> number of bump calls addressed
                        \* to the cell
    \* main and render_nebulabrot (main.rs)
    settings,           \* RenderSettings: [samples, passes, size]
    threads,            \* main's `threads`
    render_intermediates,
    pc,                 \* position of the main (orchestrator) thread
    pass,               \* render_nebulabrot's `pass`
    thread,             \* spawn loop index
    handles,            \* indices into workers of the current pass, in spawn order
    joined,             \* number of handles of the current pass already joined
    workers,            \* every worker thread ever spawned: [pass, thread, channel,
                        \* state] and the history flag joined
    queue,              \* the mpsc channel of the current pass (sent, not yet received)
    cur,                \* the message being gathered: [thread, channel, zs] and,
                        \* for the bump in progress, its x and y
    new_value,          \* bump's local in the orchestrator
    snap,               \* the last (data, maximum) pair read by get_data / get_maximum
    writers,            \* every image-writing thread ever spawned
    file,               \* the output file
    \* history variables
    accumulated,        \* set of <<pass, thread, channel>> batches fully gathered
    sentValid,          \* number of in-viewport points sent so far
    budget,             \* number of trajectory points produced so far
    callbacks,          \* pass -> number of callback invocations
    cycles,             \* number of completed per-pass cycles
    channelValid,       \* channel -> number of in-viewport points of escaped samples
    discarded,          \* number of in-viewport points of samples that did not escape
    traced,             \* number of sample points traced by workers that sent a batch
    received,           \* number of batches received in the current pass
    \* a JitterSampler being iterated (SpecSampler)
    sampler,            \* [samples, count, count_order, size, state] and the history
                        \* fields shuffled, yielded
    \* one call of a pure function (SpecCalls)
    call                \* [fn, arg, res]

imageVars  == <<width, height, data, maximum>>
bumpVars   == <<callers, issued>>
configVars == <<settings, threads, render_intermediates>>
mainVars   == <<pc, pass, thread, handles, joined, cur, new_value, snap>>
threadVars == <<workers, queue, writers, file>>
histVars   == <<accumulated, sentValid, budget, callbacks, cycles>>
renderVars == <<configVars, mainVars, threadVars, histVars>>
traceVars  == <<channelValid, discarded, traced, received>>
unitVars   == <<sampler, call>>
vars       == <<imageVars, bumpVars, renderVars, traceVars, unitVars>>

(***************************************************************************)
(* Bounds of the model.                                                    *)
(***************************************************************************)
MaxSize    == 2     \* SpecBump: widths and heights 1..MaxSize; Spec: the resolution
NCallers   == 2     \* concurrent callers of bump in SpecBump
MaxBumps   == 3     \* bump calls issued in SpecBump
MaxPts     == 1     \* trajectory points produced during one render

\* The thread counts and pass counts of a render.  Two workers per pass and
\* two passes show every ordering between workers, between a pass and the
\* next and between the passes and the writer threads; a third worker or a
\* third pass only multiplies the interleavings.
ThreadChoices == 1..2
PassChoices   == 0..2

(***************************************************************************)
(* Program constants.                                                      *)
(***************************************************************************)
CHANNELS == 3

Max2(a, b) == IF a > b THEN a ELSE b

RECURSIVE SumTo(_, _)
SumTo(f, n) == IF n = 0 THEN 0 ELSE f[n - 1] + SumTo(f, n - 1)

\* The largest element of a counter array (0 for an empty one).
RECURSIVE MaxTo(_, _)
MaxTo(f, n) == IF n = 0 THEN 0 ELSE Max2(f[n - 1], MaxTo(f, n - 1))

DataLen(d) == Cardinality(DOMAIN d)

(***************************************************************************)
(* raw_image.rs                                                            *)
(***************************************************************************)
\* The counters are u32 and the index arithmetic is u32; every value of the
\* model stays far below 2^32, so no operation wraps.

\* RawImage::new: width * height * CHANNELS counters, all 0.
NewData(w, h) == [i \in 0..((w * h * CHANNELS) - 1) |-> 0]

IndexNoChannel(x, y, channel, h) == (x * h + y) * 3

\* bump: let index = ((x * self.height + y) * 3 + channel) as usize
Index(x, y, channel, h) == (x * h + y) * 3 + channel

\* self.data[index].fetch_add(1, SeqCst): the stored value; the call returns d[i].
FetchAdd(d, i) == [d EXCEPT ![i] = d[i] + 1]

\* self.maximum.fetch_max(new_value, SeqCst): the stored value.
FetchMax(m, v) == Max2(m, v)

\* get_data
GetData == data

\* get_maximum
GetMaximum == maximum

(***************************************************************************)
(* SpecBump: concurrent callers of RawImage::bump.                         *)
(***************************************************************************)
Callers == 1..NCallers

IdleCaller == [pc |-> "idle", new_value |-> 0]

\* The cells of a width x height image.
Cells(w, h) == (0..(w - 1)) \X (0..(h - 1)) \X (0..(CHANNELS - 1))

RECURSIVE SumOver(_, _)
SumOver(f, S) ==
    IF S = {} THEN 0
    ELSE LET e == CHOOSE e \in S : TRUE IN f[e] + SumOver(f, S \ {e})

TotalIssued == SumOver(issued, DOMAIN issued)

\* No sampler is being iterated.
SamplerIdle ==
    sampler = [samples |-> 0, count |-> 0, count_order |-> <<>>, size |-> 0,
               state |-> "idle", shuffled |-> FALSE, yielded |-> <<>>]

\* No call is recorded.
CallIdle == call = [fn |-> "none", arg |-> <<>>, res |-> <<>>]

\* No image is allocated and nobody calls bump.
ImageIdle ==
    /\ width = 0
    /\ height = 0
    /\ data = <<>>
    /\ maximum = 0
    /\ callers = [c \in Callers |-> IdleCaller]
    /\ issued = <<>>

RenderIdle ==
    /\ settings = [samples |-> 0, passes |-> 0, size |-> 0, curve |-> 0,
                   limits |-> <<0, 0, 0>>]
    /\ threads = 1
    /\ render_intermediates = FALSE
    /\ pc = "idle"
    /\ pass = 0
    /\ thread = 0
    /\ handles = <<>>
    /\ joined = 0
    /\ workers = <<>>
    /\ queue = <<>>
    /\ cur = [thread |-> 0, channel |-> 0, zs |-> <<>>, pass |-> 0, x |-> 0, y |-> 0]
    /\ new_value = 0
    /\ snap = [data |-> <<>>, maximum |-> 0]
    /\ writers = <<>>
    /\ file = [tag |-> 0, complete |-> FALSE]
    /\ accumulated = {}
    /\ sentValid = 0
    /\ budget = 0
    /\ callbacks = <<>>
    /\ cycles = 0
    /\ channelValid = <<>>
    /\ discarded = 0
    /\ traced = 0
    /\ received = 0

InitBump ==
    /\ width \in 1..MaxSize
    /\ height \in 1..MaxSize
    /\ data = NewData(width, height)
    /\ maximum = 0
    /\ callers = [c \in Callers |-> IdleCaller]
    /\ issued = [cell \in Cells(width, height) |-> 0]
    /\ RenderIdle
    /\ SamplerIdle
    /\ CallIdle

\* bump, first atomic operation: the index and the fetch_add.
BumpFetchAdd(c) ==
    /\ callers[c].pc = "idle"
    /\ TotalIssued < MaxBumps
    /\ \E x \in 0..(width - 1), y \in 0..(height - 1), channel \in 0..(CHANNELS - 1) :
         LET index == Index(x, y, channel, height) IN
         /\ data' = FetchAdd(data, index)
         /\ callers' = [callers EXCEPT ![c] =
                [pc |-> "added", new_value |-> data[index]]]
         /\ issued' = [issued EXCEPT ![<<x, y, channel>>] = @ + 1]
    /\ UNCHANGED <<unitVars, traceVars, width, height, maximum, renderVars>>

\* bump, second atomic operation: the fetch_max; then the call returns.
BumpFetchMax(c) ==
    /\ callers[c].pc = "added"
    /\ maximum' = FetchMax(maximum, callers[c].new_value)
    /\ callers' = [callers EXCEPT ![c] = IdleCaller]
    /\ UNCHANGED <<unitVars, traceVars, width, height, data, issued, renderVars>>

NextBump == \E c \in Callers : BumpFetchAdd(c) \/ BumpFetchMax(c)

SpecBump == InitBump /\ [][NextBump]_vars

NoBumpInProgress == \A c \in Callers : callers[c].pc = "idle"

\* C1: once every bump call has returned, each cell holds exactly the number
\* of bump calls that were addressed to it (no update is lost).
C1_NoLostUpdate ==
    NoBumpInProgress =>
        \A cell \in DOMAIN issued :
            data[Index(cell[1], cell[2], cell[3], height)] = issued[cell]

\* C1 witness: two calls from different callers overlapped on one cell and
\* both have returned.
C1_Witness ==
    /\ NoBumpInProgress
    /\ \E cell \in DOMAIN issued :
         /\ issued[cell] >= 2
         /\ data[Index(cell[1], cell[2], cell[3], height)] = issued[cell]

\* C2: whenever no bump is in progress, the maximum equals the largest value
\* held by any cell.
C2_MaximumIsLargestCell ==
    NoBumpInProgress => maximum = MaxTo(data, DataLen(data))

(***************************************************************************)
(* main.rs: f64_to_index.  An Option is a set with at most one element.    *)
(***************************************************************************)
\* A cast that rounds away from zero.
AsUsizeUp(num, den) ==
    LET n == IF den < 0 THEN 0 - num ELSE num
        d == IF den < 0 THEN 0 - den ELSE den
    IN  IF n < 0 THEN 0 ELSE (n \div d) + 1

\* `as usize` truncates toward zero and saturates: a negative product is 0.
AsUsize(num, den) ==
    LET n == IF den < 0 THEN 0 - num ELSE num
        d == IF den < 0 THEN 0 - den ELSE den
    IN  IF n < 0 THEN 0 ELSE n \div d

PixelInRangeInclusive(pixel, size) == pixel <= size

\* f64_to_index: pixel < (size as usize)
PixelInRange(pixel, size) == pixel < size

\* f64_to_index(point, min, max, size)
F64ToIndex(point, min, max, size) ==
    IF min = max THEN {}
    ELSE LET interpNonNegative == (point - min) * (max - min) >= 0
             pixel == AsUsize(size * (point - min), max - min)
         IN  IF interpNonNegative /\ PixelInRange(pixel, size) THEN {pixel} ELSE {}

\* x.zip(y)
Zip(x, y) == x \X y

\* The projection of a trajectory point in the gather loop.
Project(z, size) ==
    Zip(F64ToIndex(z.re, -2000, 2000, size), F64ToIndex(z.im, -2000, 2000, size))

(***************************************************************************)
(* binary64 arithmetic (the f64 of the source), round to nearest, ties to  *)
(* even.  A natural number of any size is a sequence of limbs (digits to   *)
(* the base 2^15), least significant first.  A finite value that is not    *)
(* negative is [n, e] and stands for n * 2^e.  Exponents stay far inside   *)
(* the range of the format.                                                *)
(***************************************************************************)
Precision == 53     \* significant bits of an f64

Base == 2 ^ 15

NoHighZeros(l) ==
    LET used == {i \in 1..Len(l) : l[i] # 0}
    IN  IF used = {} THEN <<>>
        ELSE SubSeq(l, 1, CHOOSE i \in used : \A j \in used : j <= i)

RECURSIVE LimbsOf(_)
\* The limbs of a natural number below 2^31.
LimbsOf(k) == IF k = 0 THEN <<>> ELSE <<k % Base>> \o LimbsOf(k \div Base)

RECURSIVE NatOf(_)
\* The natural number of a limb sequence, where it is below 2^31.
NatOf(l) == IF l = <<>> THEN 0 ELSE Head(l) + Base * NatOf(Tail(l))

Limb(l, i) == IF i \in 1..Len(l) THEN l[i] ELSE 0

\* Bit i of the number (bit 0 is the least significant).
Bit(l, i) == (Limb(l, (i \div 15) + 1) \div (2 ^ (i % 15))) % 2

\* The number of significant bits.
BitLen(l) ==
    LET t   == NoHighZeros(l)
        top == t[Len(t)]
    IN  IF t = <<>> THEN 0
        ELSE 15 * (Len(t) - 1)
             + (CHOOSE k \in 1..15 : top < 2 ^ k /\ top >= 2 ^ (k - 1))

\* floor(l / 2^d)
ShiftRight(l, d) ==
    LET q == d \div 15
        r == d % 15
    IN  IF Len(l) <= q THEN <<>>
        ELSE NoHighZeros([i \in 1..(Len(l) - q) |->
                 (Limb(l, i + q) \div (2 ^ r))
                 + (Limb(l, i + q + 1) % (2 ^ r)) * (2 ^ (15 - r))])

\* l * 2^d
ShiftLeft(l, d) ==
    LET q == d \div 15
        r == d % 15
    IN  NoHighZeros([i \in 1..(Len(l) + q + 1) |->
            (Limb(l, i - q) % (2 ^ (15 - r))) * (2 ^ r)
            + (Limb(l, i - q - 1) \div (2 ^ (15 - r)))])

RECURSIVE AddLimbs(_, _, _)
AddLimbs(a, b, carry) ==
    IF a = <<>> /\ b = <<>>
    THEN IF carry = 0 THEN <<>> ELSE <<carry>>
    ELSE LET s == Limb(a, 1) + Limb(b, 1) + carry
         IN  <<s % Base>> \o AddLimbs(IF a = <<>> THEN a ELSE Tail(a),
                                      IF b = <<>> THEN b ELSE Tail(b),
                                      s \div Base)

RECURSIVE TimesLimb(_, _, _)
\* a * d + carry for one limb d.
TimesLimb(a, d, carry) ==
    IF a = <<>>
    THEN IF carry = 0 THEN <<>> ELSE <<carry>>
    ELSE LET s == Head(a) * d + carry
         IN  <<s % Base>> \o TimesLimb(Tail(a), d, s \div Base)

RECURSIVE MulLimbs(_, _)
\* The exact product.
MulLimbs(a, b) ==
    IF a = <<>> THEN <<>>
    ELSE NoHighZeros(AddLimbs(TimesLimb(b, Head(a), 0),
                              <<0>> \o MulLimbs(Tail(a), b), 0))

\* The value n * 2^e in its canonical form: n is odd, or the value is zero.
Finite(n, e) ==
    LET t == NoHighZeros(n)
        z == CHOOSE k \in 0..(BitLen(t) - 1) :
                 Bit(t, k) = 1 /\ \A j \in 0..(k - 1) : Bit(t, j) = 0
    IN  IF t = <<>> THEN [kind |-> "finite", n |-> <<>>, e |-> 0]
        ELSE [kind |-> "finite", n |-> ShiftRight(t, z), e |-> e + z]

Inf == [kind |-> "inf", n |-> <<>>, e |-> 0]

NaN == [kind |-> "nan", n |-> <<>>, e |-> 0]

IsZero(f) == f.kind = "finite" /\ f.n = <<>>

\* Round to nearest, ties to even: the part cut off is more than half a unit
\* of the last place, or exactly half and the kept part is odd.
RoundsUp(guard, sticky, odd) == guard = 1 /\ (sticky \/ odd)

\* The f64 nearest to the exact value n * 2^e.
Round(n, e) ==
    LET t    == NoHighZeros(n)
        drop == BitLen(t) - Precision
    IN  IF drop <= 0 THEN Finite(t, e)
        ELSE LET kept   == ShiftRight(t, drop)
                 sticky == \E i \in 0..(drop - 2) : Bit(t, i) = 1
             IN  IF RoundsUp(Bit(t, drop - 1), sticky, Bit(t, drop) = 1)
                 THEN Finite(AddLimbs(kept, <<1>>, 0), e + drop)
                 ELSE Finite(kept, e + drop)

\* u32 as f64: exact.
FromNat(k) == Finite(LimbsOf(k), 0)

RECURSIVE FractionLimbs(_, _, _)
\* The first k limbs of r / b after the point (r < b < 2^16), and the
\* remainder left.
FractionLimbs(r, b, k) ==
    IF k = 0 THEN [limbs |-> <<>>, rem |-> r]
    ELSE LET rest == FractionLimbs((r * Base) % b, b, k - 1)
         IN  [limbs |-> rest.limbs \o <<(r * Base) \div b>>, rem |-> rest.rem]

\* a as f64 / b as f64 for natural numbers (b < 2^16): the quotient to 90
\* bits after the point, one more bit set where a remainder is left, rounded.
DivNat(a, b) ==
    IF b = 0 THEN (IF a = 0 THEN NaN ELSE Inf)
    ELSE LET q == FractionLimbs(a % b, b, 6)
             n == q.limbs \o LimbsOf(a \div b)
         IN  IF q.rem = 0 THEN Round(n, 0 - 90)
             ELSE Round(AddLimbs(ShiftLeft(n, 1), <<1>>, 0), 0 - 91)

\* f * g
Mul(f, g) ==
    IF f.kind = "nan" \/ g.kind = "nan" THEN NaN
    ELSE IF f.kind = "inf" \/ g.kind = "inf"
         THEN (IF IsZero(f) \/ IsZero(g) THEN NaN ELSE Inf)
    ELSE Round(MulLimbs(f.n, g.n), f.e + g.e)

\* f + g for finite values.
Add(f, g) ==
    LET e0 == IF f.e < g.e THEN f.e ELSE g.e
    IN  IF IsZero(f) THEN g
        ELSE IF IsZero(g) THEN f
        ELSE Round(AddLimbs(ShiftLeft(f.n, f.e - e0),
                            ShiftLeft(g.n, g.e - e0), 0), e0)

\* The exact product of a finite value and a natural number (no rounding).
ExactTimes(f, k) == Finite(MulLimbs(f.n, LimbsOf(k)), f.e)

\* The integer part of a finite value below 2^30.
Floor(f) ==
    IF f.e >= 0 THEN NatOf(ShiftLeft(f.n, f.e))
    ELSE NatOf(ShiftRight(f.n, 0 - f.e))

\* f < k for a finite value and a natural number k.
Below(f, k) == BitLen(f.n) + f.e <= 30 /\ Floor(f) < k

\* The largest f64 below 1.0: 1 - 2^-53.
BelowOne ==
    Finite([i \in 1..4 |-> IF i < 4 THEN Base - 1 ELSE (2 ^ 8) - 1], 0 - Precision)

(***************************************************************************)
(* main.rs: map_to_color                                                   *)
(***************************************************************************)
\* The curve of the model, in thousandths: 1.0.
CurveChoices == {1000}

\* x.powf(curve) for curve = 1.0: x itself, also for NaN and infinity.
Powf(v, curve) == CASE curve = 1000 -> v

\* `as u8` truncates and saturates: NaN is 0, infinity and 256.0 are 255.
AsU8(v) ==
    IF v.kind = "nan" THEN 0
    ELSE IF v.kind = "inf" THEN 255
    ELSE IF Below(v, 256) THEN Floor(v) ELSE 255

Min2(a, b) == IF a < b THEN a ELSE b

\* min(255, ((p as f64 * multiplier).powf(curve) * 256.0) as u8)
MapPixel(p, multiplier, curve) ==
    Min2(255, AsU8(Mul(Powf(Mul(FromNat(p), multiplier), curve), FromNat(256))))

\* map_to_color(data, maximum, curve)
MapToColor(d, max, curve) ==
    LET multiplier == DivNat(1, max)
    IN  [i \in DOMAIN d |-> MapPixel(d[i], multiplier, curve)]

(***************************************************************************)
(* Inputs of a render.                                                     *)
(***************************************************************************)
\* Trajectory points: one inside the viewport (its left edge, its centre),
\* one on the right edge (which is outside), one left of the viewport.
Points ==
    { [re |-> -2000, im |-> 0], [re |-> 0, im |-> 2000], [re |-> -2001, im |-> 0] }

\* The trajectories a worker gathers for one channel: at most n points.
Batches(n) == UNION {[1..k -> Points] : k \in 0..n}

\* samples_per_pass_channel: none, fewer than 100, at least 100.
SampleChoices == {0, 50, 100}

\* limits: the iteration limit of each channel (RenderSettings::DEFAULT).
DefaultLimits == <<7740, 2580, 860>>

RECURSIVE CountValid(_, _)
CountValid(zs, size) ==
    IF zs = <<>> THEN 0
    ELSE (IF Project(Head(zs), size) = {} THEN 0 ELSE 1) + CountValid(Tail(zs), size)

(***************************************************************************)
(* Spec: main, render_nebulabrot, write_image.                             *)
(***************************************************************************)
Init ==
    /\ settings \in [samples : SampleChoices, passes : PassChoices, size : {MaxSize},
                     curve : CurveChoices, limits : {DefaultLimits}]
    /\ threads \in ThreadChoices
    /\ render_intermediates \in BOOLEAN
    /\ width = settings.size
    /\ height = settings.size
    /\ data = NewData(settings.size, settings.size)
    /\ maximum = 0
    /\ callers = [c \in Callers |-> IdleCaller]
    /\ issued = <<>>
    /\ pc = "while"
    /\ pass = 0
    /\ thread = 0
    /\ handles = <<>>
    /\ joined = 0
    /\ workers = <<>>
    /\ queue = <<>>
    /\ cur = [thread |-> 0, channel |-> 0, zs |-> <<>>, pass |-> 0, x |-> 0, y |-> 0]
    /\ new_value = 0
    /\ snap = [data |-> <<>>, maximum |-> 0]
    /\ writers = <<>>
    /\ file = [tag |-> 0, complete |-> FALSE]
    /\ accumulated = {}
    /\ sentValid = 0
    /\ budget = 0
    /\ callbacks = [p \in 1..settings.passes |-> 0]
    /\ cycles = 0
    /\ channelValid = [ch \in 0..(CHANNELS - 1) |-> 0]
    /\ discarded = 0
    /\ traced = 0
    /\ received = 0
    /\ SamplerIdle
    /\ CallIdle

\* The process is running: main has neither returned nor panicked.
Alive == pc \notin {"exited", "panicked"}

\* The tag of the image written after the last pass.
FinalTag == settings.passes + 1

(***************************************************************************)
(* render_nebulabrot: the orchestrator.                                    *)
(***************************************************************************)
WhileCondInclusive == pass <= settings.passes

\* while pass < settings.passes
WhileCond == pass < settings.passes

\* One more pass: pass += 1, a fresh handles vector and a fresh channel.
PassBegin ==
    /\ pc = "while"
    /\ WhileCond
    /\ pass' = pass + 1
    /\ handles' = <<>>
    /\ queue' = <<>>
    /\ thread' = 0
    /\ joined' = 0
    /\ pc' = "spawn"
    /\ received' = 0
    /\ UNCHANGED <<unitVars, channelValid, discarded, traced, imageVars, bumpVars, configVars,
                   cur, new_value, snap, workers, writers, file, histVars>>

\* for thread in 0..threads: thread::spawn(..); handles.push(handle)
Spawn ==
    /\ pc = "spawn"
    /\ thread < threads
    /\ workers' = Append(workers,
            [pass |-> pass, thread |-> thread, channel |-> 0, limit |-> 0,
             state |-> "running", joined |-> FALSE])
    /\ handles' = Append(handles, Len(workers) + 1)
    /\ thread' = thread + 1
    /\ pc' = IF thread + 1 < threads THEN "spawn" ELSE "join"
    /\ UNCHANGED <<unitVars, traceVars, imageVars, bumpVars, configVars, pass, joined, cur, new_value,
                   snap, queue, writers, file, histVars>>

JoinReturnsAtOnce(h) == TRUE

\* handle.join() returns once the thread has terminated.
JoinReturns(h) == workers[h].state \in {"finished", "panicked"}

JoinNeverErr(h) == FALSE

\* handle.join() is Err when the thread panicked.
JoinIsErr(h) == workers[h].state = "panicked"

JoinOkFirstOnly ==
    /\ pc = "join"
    /\ joined < Len(handles)
    /\ JoinReturns(handles[joined + 1])
    /\ ~JoinIsErr(handles[joined + 1])
    /\ joined' = joined + 1
    /\ workers' = [workers EXCEPT ![handles[joined + 1]].joined = TRUE]
    /\ pc' = "gather"
    /\ UNCHANGED <<unitVars, traceVars, imageVars, bumpVars, configVars, pass, thread, handles, cur,
                   new_value, snap, queue, writers, file, histVars>>

\* handle.join().unwrap(), the thread has finished normally.
JoinOk ==
    /\ pc = "join"
    /\ joined < Len(handles)
    /\ JoinReturns(handles[joined + 1])
    /\ ~JoinIsErr(handles[joined + 1])
    /\ joined' = joined + 1
    /\ workers' = [workers EXCEPT ![handles[joined + 1]].joined = TRUE]
    /\ pc' = IF joined + 1 < Len(handles) THEN "join" ELSE "gather"
    /\ UNCHANGED <<unitVars, traceVars, imageVars, bumpVars, configVars, pass, thread, handles, cur,
                   new_value, snap, queue, writers, file, histVars>>

\* handle.join().unwrap(), the thread has panicked: the unwrap panics in main.
JoinErr ==
    /\ pc = "join"
    /\ joined < Len(handles)
    /\ JoinReturns(handles[joined + 1])
    /\ JoinIsErr(handles[joined + 1])
    /\ pc' = "panicked"
    /\ UNCHANGED <<unitVars, traceVars, imageVars, bumpVars, configVars, pass, thread, handles, joined,
                   cur, new_value, snap, threadVars, histVars>>

TryRecvEmptyAlways(q) == TRUE

\* receive.try_recv() is Err(Empty): nothing is in the channel.
TryRecvEmpty(q) == q = <<>>

\* while let Ok((thread, channel, zs)) = receive.try_recv()
Recv ==
    /\ pc = "gather"
    /\ queue # <<>>
    /\ cur' = Head(queue)
    /\ queue' = Tail(queue)
    /\ pc' = "points"
    /\ received' = received + 1
    /\ UNCHANGED <<unitVars, channelValid, discarded, traced, imageVars, bumpVars, configVars,
                   pass, thread, handles, joined, new_value, snap, workers, writers,
                   file, histVars>>

\* try_recv() fails: the gather loop ends.
GatherDone ==
    /\ pc = "gather"
    /\ TryRecvEmpty(queue)
    /\ pc' = "intermediates"
    /\ UNCHANGED <<unitVars, traceVars, imageVars, bumpVars, configVars, pass, thread, handles, joined,
                   cur, new_value, snap, threadVars, histVars>>

\* for z in zs: project the point; None => {}, Some((x, y)) => bump is called.
Point ==
    /\ pc = "points"
    /\ cur.zs # <<>>
    /\ LET xy == Project(Head(cur.zs), settings.size) IN
         IF xy = {}
         THEN /\ cur' = [cur EXCEPT !.zs = Tail(@)]
              /\ pc' = "points"
         ELSE \E p \in xy :
              /\ cur' = [cur EXCEPT !.zs = Tail(@), !.x = p[1], !.y = p[2]]
              /\ pc' = "bump"
    /\ UNCHANGED <<unitVars, traceVars, imageVars, bumpVars, configVars, pass, thread, handles, joined,
                   new_value, snap, threadVars, histVars>>

\* raw_image.bump(x, y, channel): the index and the fetch_add; an index
\* outside the vector panics.
BumpAdd ==
    /\ pc = "bump"
    /\ LET index == Index(cur.x, cur.y, cur.channel, height) IN
         IF index \in DOMAIN data
         THEN /\ data' = FetchAdd(data, index)
              /\ new_value' = data[index]
              /\ pc' = "bump_max"
         ELSE /\ pc' = "panicked"
              /\ UNCHANGED <<data, new_value>>
    /\ UNCHANGED <<unitVars, traceVars, width, height, maximum, bumpVars, configVars, pass, thread,
                   handles, joined, cur, snap, threadVars, histVars>>

\* raw_image.bump: the fetch_max; bump returns.
BumpMax ==
    /\ pc = "bump_max"
    /\ maximum' = FetchMax(maximum, new_value)
    /\ pc' = "points"
    /\ UNCHANGED <<unitVars, traceVars, width, height, data, bumpVars, configVars, pass, thread, handles,
                   joined, cur, new_value, snap, threadVars, histVars>>

\* The batch is exhausted: channel_progress.inc(1).
BatchDone ==
    /\ pc = "points"
    /\ cur.zs = <<>>
    /\ accumulated' = accumulated \cup {<<cur.pass, cur.thread, cur.channel>>}
    /\ pc' = "gather"
    /\ UNCHANGED <<unitVars, traceVars, imageVars, bumpVars, configVars, pass, thread, handles, joined,
                   cur, new_value, snap, threadVars, sentValid, budget, callbacks,
                   cycles>>

IntermediatesAlways == TRUE

\* if let Some(intermediates) = intermediates: main registers the callback
\* exactly when render_intermediates is set.
IntermediatesRegistered == render_intermediates

\* intermediates(&raw_image.get_data(), raw_image.get_maximum()): the
\* arguments are read and the callback is entered.
CallIntermediates ==
    /\ pc = "intermediates"
    /\ IntermediatesRegistered
    /\ snap' = [data |-> GetData, maximum |-> GetMaximum]
    /\ callbacks' = [callbacks EXCEPT ![pass] = @ + 1]
    /\ pc' = "callback"
    /\ UNCHANGED <<unitVars, traceVars, imageVars, bumpVars, configVars, pass, thread, handles, joined,
                   cur, new_value, threadVars, accumulated, sentValid, budget,
                   cycles>>

\* The callback calls write_image, which clones the data and spawns a writer
\* thread; the JoinHandle is dropped and the callback returns.
CallbackReturn ==
    /\ pc = "callback"
    /\ writers' = Append(writers,
            [tag |-> pass, data |-> snap.data, maximum |-> snap.maximum,
             state |-> "spawned"])
    /\ cycles' = cycles + 1
    /\ pc' = "while"
    /\ UNCHANGED <<unitVars, traceVars, imageVars, bumpVars, configVars, pass, thread, handles, joined,
                   cur, new_value, snap, workers, queue, file, accumulated,
                   sentValid, budget, callbacks>>

\* No callback is registered: the pass ends.
SkipIntermediates ==
    /\ pc = "intermediates"
    /\ ~IntermediatesRegistered
    /\ cycles' = cycles + 1
    /\ pc' = "while"
    /\ UNCHANGED <<unitVars, traceVars, imageVars, bumpVars, configVars, pass, thread, handles, joined,
                   cur, new_value, snap, threadVars, accumulated, sentValid,
                   budget, callbacks>>

\* Ok((raw_image.get_data(), raw_image.get_maximum()))
RenderReturn ==
    /\ pc = "while"
    /\ ~WhileCond
    /\ snap' = [data |-> GetData, maximum |-> GetMaximum]
    /\ pc' = "write_final"
    /\ UNCHANGED <<unitVars, traceVars, imageVars, bumpVars, configVars, pass, thread, handles, joined,
                   cur, new_value, threadVars, histVars>>

(***************************************************************************)
(* main: the final image.                                                  *)
(***************************************************************************)
\* write_image(render_settings, &output_path, &data, maximum, ..)
WriteFinal ==
    /\ pc = "write_final"
    /\ writers' = Append(writers,
            [tag |-> FinalTag, data |-> snap.data, maximum |-> snap.maximum,
             state |-> "spawned"])
    /\ pc' = "final_join"
    /\ UNCHANGED <<unitVars, traceVars, imageVars, bumpVars, configVars, pass, thread, handles, joined,
                   cur, new_value, snap, workers, queue, file, histVars>>

\* .join().expect(..) on the handle of the final writer; then main returns
\* and the process exits.
FinalJoin ==
    /\ pc = "final_join"
    /\ writers[Len(writers)].state = "finished"
    /\ pc' = "exited"
    /\ UNCHANGED <<unitVars, traceVars, imageVars, bumpVars, configVars, pass, thread, handles, joined,
                   cur, new_value, snap, threadVars, histVars>>

(***************************************************************************)
(* The worker closure.                                                     *)
(***************************************************************************)
\* JitterSampler::next calls index(), which computes count % samples.
SamplerNextPanics(samples) == samples = 0

\* if iteration % (settings.samples / 100) == 0
ProgressStepPanics(samples) == samples \div 100 = 0

\* for (iteration, x, y) in sampler: the number of points the sampler yields
\* before None, one for each count with count < samples.
SamplerYields(samples) == Cardinality({count \in 0..samples : count < samples})

\* let limit = settings.limits[channel as usize]
LimitOf(channel) == settings.limits[channel + 1]

\* The results of mandelbrot::iterate for the samples of one channel whose
\* trajectories have points: (zs, bailed) pairs, zs no longer than the limit.
TraceChoices(n, limit) ==
    [zs : {zs \in Batches(n) : zs # <<>> /\ Len(zs) <= limit}, bailed : BOOLEAN]

RECURSIVE PointsOf(_)
PointsOf(ts) == IF ts = <<>> THEN <<>> ELSE Head(ts).zs \o PointsOf(Tail(ts))

\* The sequences of results with at most n points in all.
Traces(n, limit) ==
    {ts \in UNION {[1..k -> TraceChoices(n, limit)] : k \in 0..n} : Len(PointsOf(ts)) <= n}

KeepAlways(bailed) == TRUE

\* if bailed { zss.extend(zs); }
KeepTrajectory(bailed) == bailed

RECURSIVE Gathered(_)
\* zss after the sampler loop.
Gathered(ts) ==
    IF ts = <<>> THEN <<>>
    ELSE (IF KeepTrajectory(Head(ts).bailed) THEN Head(ts).zs ELSE <<>>)
         \o Gathered(Tail(ts))

\* The results that escaped (or did not).
Select(ts, bailed) == SelectSeq(ts, LAMBDA t : t.bailed = bailed)

MoreChannelsButLast(channel) == channel < CHANNELS - 1

\* for channel in 0..CHANNELS
MoreChannels(channel) == channel < CHANNELS

\* One channel of a worker: the sampler loop, then transfer.send(..).  Of the
\* samples of the channel, those whose trajectories have points are any
\* sequence of results within the budget of points.
WorkerChannel(w) ==
    /\ Alive
    /\ workers[w].state = "running"
    /\ MoreChannels(workers[w].channel)
    /\ IF SamplerNextPanics(settings.samples) \/ ProgressStepPanics(settings.samples)
       THEN /\ workers' = [workers EXCEPT ![w].state = "panicked",
                                          ![w].limit = LimitOf(workers[w].channel)]
            /\ UNCHANGED <<queue, sentValid, budget, channelValid, discarded, traced>>
       ELSE \E ts \in Traces(MaxPts - budget, LimitOf(workers[w].channel)) :
            /\ queue' = Append(queue,
                    [thread |-> workers[w].thread, channel |-> workers[w].channel,
                     zs |-> Gathered(ts), pass |-> workers[w].pass, x |-> 0, y |-> 0])
            /\ workers' = [workers EXCEPT ![w].channel = @ + 1,
                                          ![w].limit = LimitOf(workers[w].channel)]
            /\ sentValid' = sentValid + CountValid(Gathered(ts), settings.size)
            /\ budget' = budget + Len(PointsOf(ts))
            /\ channelValid' = [channelValid EXCEPT ![workers[w].channel] =
                    @ + CountValid(PointsOf(Select(ts, TRUE)), settings.size)]
            /\ discarded' = discarded
                    + CountValid(PointsOf(Select(ts, FALSE)), settings.size)
            /\ traced' = traced + SamplerYields(settings.samples)
    /\ UNCHANGED <<unitVars, received, imageVars, bumpVars, configVars, mainVars, writers,
                   file, accumulated, callbacks, cycles>>

\* thread_progress.finish_and_clear(); the closure returns.
WorkerFinish(w) ==
    /\ Alive
    /\ workers[w].state = "running"
    /\ ~MoreChannels(workers[w].channel)
    /\ workers' = [workers EXCEPT ![w].state = "finished"]
    /\ UNCHANGED <<unitVars, traceVars, imageVars, bumpVars, configVars, mainVars, queue,
                   writers, file, histVars>>

(***************************************************************************)
(* write_image: the writer thread.                                         *)
(***************************************************************************)
\* The pixel buffer of a writer: map_to_color(data, maximum, settings.curve).
PixelBuffer(w) == MapToColor(writers[w].data, writers[w].maximum, settings.curve)

\* map_to_color, then data_to_png: File::create(path) truncates the file.
WriterCreate(w) ==
    /\ Alive
    /\ writers[w].state = "spawned"
    /\ writers' = [writers EXCEPT ![w].state = "writing"]
    /\ file' = [tag |-> writers[w].tag, complete |-> FALSE]
    /\ UNCHANGED <<unitVars, traceVars, imageVars, bumpVars, configVars, mainVars, workers, queue,
                   histVars>>

\* writer.write_image_data(&data); the thread ends.
WriterWrite(w) ==
    /\ Alive
    /\ writers[w].state = "writing"
    /\ writers' = [writers EXCEPT ![w].state = "finished"]
    /\ file' = [tag |-> writers[w].tag, complete |-> TRUE]
    /\ UNCHANGED <<unitVars, traceVars, imageVars, bumpVars, configVars, mainVars, workers, queue,
                   histVars>>

Next ==
    \/ PassBegin
    \/ Spawn
    \/ JoinOk
    \/ JoinErr
    \/ Recv
    \/ GatherDone
    \/ Point
    \/ BumpAdd
    \/ BumpMax
    \/ BatchDone
    \/ CallIntermediates
    \/ CallbackReturn
    \/ SkipIntermediates
    \/ RenderReturn
    \/ WriteFinal
    \/ FinalJoin
    \/ \E w \in 1..Len(workers) : WorkerChannel(w) \/ WorkerFinish(w)
    \/ \E w \in 1..Len(writers) : WriterCreate(w) \/ WriterWrite(w)

Spec == Init /\ [][Next]_vars

(***************************************************************************)
(* Properties of the render.                                               *)
(***************************************************************************)
Workers == 1..Len(workers)

\* The batches of the passes 1..n: one per pass, thread slot and channel.
BatchesUpTo(n) == (1..n) \X (0..(threads - 1)) \X (0..(CHANNELS - 1))

\* A (counts, maximum) pair has just been read: it is being handed to the
\* callback, or it is the returned result.
SnapshotTaken == pc \in {"callback", "write_final"}

\* render_nebulabrot has returned Ok.
RenderReturned == pc \in {"write_final", "final_join", "exited"}

\* C3: a worker of a later pass exists only when every worker of every
\* earlier pass has finished and been joined and all its batches have been
\* accumulated; workers that run at the same time belong to the same pass.
C3_PassesSequential ==
    \A i \in Workers, j \in Workers :
        /\ workers[i].pass < workers[j].pass =>
              /\ workers[i].state = "finished"
              /\ workers[i].joined
              /\ \A ch \in 0..(CHANNELS - 1) :
                    <<workers[i].pass, workers[i].thread, ch>> \in accumulated
        /\ (workers[i].state = "running" /\ workers[j].state = "running") =>
              workers[i].pass = workers[j].pass

\* C3 witness: two workers of the second pass run while the workers of the
\* first pass exist.
C3_Witness ==
    \E i \in Workers, j \in Workers, k \in Workers :
        /\ workers[i].pass = 1
        /\ workers[j].pass = 2 /\ workers[j].state = "running"
        /\ workers[k].pass = 2 /\ workers[k].state = "running" /\ k # j

\* C4: when a snapshot is read no worker is running, nothing is left in the
\* channel, the batches accumulated are exactly those of the passes so far,
\* the pair read is the histogram's, and it counts every in-viewport point
\* sent so far exactly once.
C4_SnapshotAtPassBoundary ==
    SnapshotTaken =>
        /\ \A w \in Workers : workers[w].state = "finished" /\ workers[w].joined
        /\ \A w \in Workers : workers[w].pass <= pass
        /\ queue = <<>>
        /\ accumulated = BatchesUpTo(pass)
        /\ snap.data = data
        /\ snap.maximum = maximum
        /\ SumTo(snap.data, DataLen(snap.data)) = sentValid

\* C4 witness: the snapshot after the first of two passes holds a point.
C4_Witness ==
    /\ pc = "callback"
    /\ pass = 1
    /\ settings.passes = 2
    /\ threads = 2
    /\ SumTo(snap.data, DataLen(snap.data)) = 1

\* C5: the callback is invoked at most once per pass, only for a pass whose
\* workers have all been joined, only after every earlier invocation has
\* returned, and never when no callback is registered.
C5_CallbackOncePerPass ==
    /\ \A p \in DOMAIN callbacks :
          /\ callbacks[p] <= 1
          /\ callbacks[p] = 1 =>
                /\ p <= pass
                /\ \A w \in Workers : workers[w].pass = p => workers[w].joined
          /\ ~render_intermediates => callbacks[p] = 0
    /\ pc = "callback" =>
          /\ callbacks[pass] = 1
          /\ Len(writers) = pass - 1
          /\ \A p \in 1..(pass - 1) : callbacks[p] = 1

\* C5 witness: the callback of the second pass is executing.
C5_Witness ==
    /\ pc = "callback"
    /\ pass = 2
    /\ callbacks[1] = 1

\* C6: when main has returned, every writer thread that was started has
\* finished.
C6_AllWritersFinishedAtExit ==
    pc = "exited" => \A w \in 1..Len(writers) : writers[w].state = "finished"

\* C7: once a worker of a pass has panicked, no batch of that pass is
\* accumulated, its callback is not invoked, no further pass is started and
\* there is neither a final result nor a final image.
C7_WorkerPanicIsFatal ==
    \A w \in Workers :
        workers[w].state = "panicked" =>
            /\ pc \in {"spawn", "join", "panicked"}
            /\ pass = workers[w].pass
            /\ \A b \in accumulated : b[1] # workers[w].pass
            /\ callbacks[workers[w].pass] = 0
            /\ \A v \in Workers : workers[v].pass <= workers[w].pass
            /\ \A i \in 1..Len(writers) : writers[i].tag # FinalTag
            /\ file.tag # FinalTag

\* C7 witness: a worker has panicked and the join of its handle has made the
\* orchestrator panic, with two workers in the pass.
C7_Witness ==
    /\ pc = "panicked"
    /\ threads = 2
    /\ \E w \in Workers : workers[w].state = "panicked"

\* C8: with samples_per_pass_channel >= 1 and thread_count >= 1 no worker
\* panics.
C8_NoWorkerPanics ==
    (settings.samples >= 1 /\ threads >= 1) =>
        \A w \in Workers : workers[w].state # "panicked"

\* C9: the render never starts more than `passes` passes; when it has
\* returned it has gone through exactly `passes` cycles, each with
\* `threads` workers, and with passes = 0 the result is an all-zero
\* histogram with maximum 0; until main ends, some step is possible.
C9_ExactlyPassesCycles ==
    /\ pass <= settings.passes
    /\ cycles <= pass
    /\ RenderReturned =>
          /\ cycles = settings.passes
          /\ pass = settings.passes
          /\ Len(workers) = settings.passes * threads
          /\ accumulated = BatchesUpTo(settings.passes)
          /\ settings.passes = 0 =>
                /\ DataLen(snap.data) = settings.size * settings.size * CHANNELS
                /\ \A i \in DOMAIN snap.data : snap.data[i] = 0
                /\ snap.maximum = 0
    /\ Alive => ENABLED Next

\* C9 witness: a render of two passes has returned after two cycles.
C9_Witness ==
    /\ pc = "write_final"
    /\ settings.passes = 2
    /\ cycles = 2

\* C10: bump is called only with x and y below the resolution and a channel
\* below 3, so that the flat index lies within the counter array.
C10_BumpInRange ==
    pc = "bump" =>
        /\ cur.x \in 0..(settings.size - 1)
        /\ cur.y \in 0..(settings.size - 1)
        /\ cur.channel \in 0..(CHANNELS - 1)
        /\ Index(cur.x, cur.y, cur.channel, height)
              < settings.size * settings.size * CHANNELS
        /\ Index(cur.x, cur.y, cur.channel, height) \in DOMAIN data

\* C10 witness: bump is called for a pixel of the last column.
C10_Witness ==
    /\ pc = "bump"
    /\ settings.size = 2
    /\ cur.y = 1
    /\ cur.channel = 2

(***************************************************************************)
(* jitter_sampler.rs                                                       *)
(***************************************************************************)
MaxSamples == 4     \* SpecSampler: samplers of 0..MaxSamples samples

\* rng.gen::<f64>() is uniform over the multiples of 2^-53 in [0, 1): the
\* smallest and the largest of them.
RngChoices == {FromNat(0), BelowOne}

\* squirt: (n as f64).sqrt() as u32, the integer square root.
Squirt(n) == CHOOSE k \in 0..n : k * k <= n /\ n < (k + 1) * (k + 1)

\* JitterSampler::new
JitterSamplerNew(samples) ==
    [samples     |-> samples,
     count       |-> 0,
     count_order |-> [i \in 1..samples |-> i - 1],
     size        |-> Squirt(samples),
     width       |-> DivNat(1, Squirt(samples)),
     height      |-> DivNat(1, Squirt(samples)),
     state       |-> "fresh",
     shuffled    |-> FALSE,
     yielded     |-> <<>>]

\* The orders a shuffle can leave: the permutations of 0..samples-1.
Orders(samples) ==
    {o \in [1..samples -> 0..(samples - 1)] :
        \A i, j \in 1..samples : i # j => o[i] # o[j]}

\* index(): the remainder panics when samples is 0.
IndexPanics(s) == s.samples = 0

\* index()
SamplerIndex(s) == s.count_order[(s.count % s.samples) + 1]

\* The point of next() for the sub-square of index, from two draws of the rng.
JitterPoint(s, index, g1, g2) ==
    IF index < s.size * s.size
    THEN [index |-> index,
          x |-> Mul(s.width, Add(g1, FromNat(index % s.size))),
          y |-> Mul(s.height, Add(g2, FromNat(index \div s.size)))]
    ELSE [index |-> index, x |-> g1, y |-> g2]

InitSampler ==
    /\ sampler \in {JitterSamplerNew(n) : n \in 0..MaxSamples}
    /\ ImageIdle
    /\ RenderIdle
    /\ CallIdle

\* shuffle(), before the iteration starts.
Shuffle ==
    /\ sampler.state = "fresh"
    /\ ~sampler.shuffled
    /\ \E o \in Orders(sampler.samples) :
         sampler' = [sampler EXCEPT !.count_order = o, !.shuffled = TRUE]
    /\ UNCHANGED <<imageVars, bumpVars, renderVars, traceVars, call>>

\* next() panics in index().
NextPanics ==
    /\ sampler.state \in {"fresh", "iterating"}
    /\ IndexPanics(sampler)
    /\ sampler' = [sampler EXCEPT !.state = "panicked"]
    /\ UNCHANGED <<imageVars, bumpVars, renderVars, traceVars, call>>

\* next() returns Some(point).
NextSome ==
    /\ sampler.state \in {"fresh", "iterating"}
    /\ ~IndexPanics(sampler)
    /\ sampler.count < sampler.samples
    /\ \E g1, g2 \in RngChoices :
         sampler' = [sampler EXCEPT
             !.yielded = Append(@, JitterPoint(sampler, SamplerIndex(sampler), g1, g2)),
             !.count = @ + 1,
             !.state = "iterating"]
    /\ UNCHANGED <<imageVars, bumpVars, renderVars, traceVars, call>>

\* next() returns None: the iteration is over.
NextNone ==
    /\ sampler.state \in {"fresh", "iterating"}
    /\ ~IndexPanics(sampler)
    /\ sampler.count >= sampler.samples
    /\ sampler' = [sampler EXCEPT !.count = @ + 1, !.state = "ended"]
    /\ UNCHANGED <<imageVars, bumpVars, renderVars, traceVars, call>>

NextSampler == Shuffle \/ NextPanics \/ NextSome \/ NextNone

SpecSampler == InitSampler /\ [][NextSampler]_vars

\* Both coordinates of a yielded point are in [0, 1).
InUnitSquare(p) == Below(p.x, 1) /\ Below(p.y, 1)

\* The point lies in the sub-square (x_cell, y_cell) of a k x k grid:
\* x_cell <= k * x < x_cell + 1, and the same for y.
InCell(p, x_cell, y_cell, k) ==
    /\ Below(ExactTimes(p.x, k), x_cell + 1) /\ ~Below(ExactTimes(p.x, k), x_cell)
    /\ Below(ExactTimes(p.y, k), y_cell + 1) /\ ~Below(ExactTimes(p.y, k), y_cell)

\* C11: iterating a fresh JitterSampler::new(n) to exhaustion yields exactly n
\* points, each with both coordinates in [0, 1), and then signals the end;
\* for n = 0 the first next() signals the end without failing.
C11_YieldsExactlySamples ==
    /\ sampler.state # "panicked"
    /\ \A i \in 1..Len(sampler.yielded) : InUnitSquare(sampler.yielded[i])
    /\ Len(sampler.yielded) <= sampler.samples
    /\ sampler.state = "ended" => Len(sampler.yielded) = sampler.samples

\* C12: for n = k * k the n points hit every cell of the k x k grid exactly
\* once and the point of a cell lies in the cell's sub-square, shuffled or not.
C12_EveryCellOnce ==
    (sampler.state = "ended" /\ sampler.samples = sampler.size * sampler.size)
    => \A x_cell, y_cell \in 0..(sampler.size - 1) :
         \E i \in 1..Len(sampler.yielded) :
            /\ sampler.yielded[i].index = x_cell + sampler.size * y_cell
            /\ InCell(sampler.yielded[i], x_cell, y_cell, sampler.size)
            /\ \A j \in 1..Len(sampler.yielded) :
                 sampler.yielded[j].index = sampler.yielded[i].index => j = i

(***************************************************************************)
(* mandelbrot.rs: iterate.  A coordinate is a dyadic rational [n, s], the  *)
(* value n / 2^s.  Within the bounds of the model every value has fewer    *)
(* than 32 significant bits, so the f64 operations of the source are exact *)
(* and no rounding takes place.                                            *)
(***************************************************************************)
RECURSIVE Dy(_, _)
\* n / 2^s in lowest terms.
Dy(n, s) == IF s > 0 /\ n % 2 = 0 THEN Dy(n \div 2, s - 1) ELSE [n |-> n, s |-> s]

DyAdd(a, b) ==
    LET s == Max2(a.s, b.s)
    IN  Dy(a.n * (2 ^ (s - a.s)) + b.n * (2 ^ (s - b.s)), s)

DySub(a, b) ==
    LET s == Max2(a.s, b.s)
    IN  Dy(a.n * (2 ^ (s - a.s)) - b.n * (2 ^ (s - b.s)), s)

DyMul(a, b) == Dy(a.n * b.n, a.s + b.s)

DyLess(a, b) ==
    LET s == Max2(a.s, b.s)
    IN  a.n * (2 ^ (s - a.s)) < b.n * (2 ^ (s - b.s))

\* The squares of the two coordinates (the source's z2).
Squares(z) == [re |-> DyMul(z.re, z.re), im |-> DyMul(z.im, z.im)]

IterUpToLimit(iter, limit) == iter <= limit

\* iter < limit
IterBelowLimit(iter, limit) == iter < limit

StopRadiusReached(z2, stop_squared) == ~DyLess(DyAdd(z2.re, z2.im), stop_squared)

\* z2.re + z2.im < stop_squared
InsideStopRadius(z2, stop_squared) == DyLess(DyAdd(z2.re, z2.im), stop_squared)

EscapedInclusive(z2, escape_squared) == ~DyLess(DyAdd(z2.re, z2.im), escape_squared)

EscapedNever(z2, escape_squared) == FALSE

\* z2.re + z2.im > escape_squared
Escaped(z2, escape_squared) == DyLess(escape_squared, DyAdd(z2.re, z2.im))

\* One turn of the loop: z.im = 2.0 * z.re * z.im + c.im; z.re = z2.re - z2.im + c.re
Step(z, z2, c) ==
    [re |-> DyAdd(DySub(z2.re, z2.im), c.re),
     im |-> DyAdd(DyMul(DyMul(Dy(2, 0), z.re), z.im), c.im)]

RECURSIVE IterateLoopRecordsBefore(_, _, _, _, _, _)
IterateLoopRecordsBefore(z, zs, iter, c, limit, stop_squared) ==
    IF IterBelowLimit(iter, limit) /\ InsideStopRadius(Squares(z), stop_squared)
    THEN LET next == Step(z, Squares(z), c)
         IN  IterateLoopRecordsBefore(next, Append(zs, z), iter + 1, c, limit,
                                      stop_squared)
    ELSE [z |-> z, zs |-> zs]

RECURSIVE IterateLoop(_, _, _, _, _, _)
\* The while loop from the state (z, zs, iter); z2 is recomputed from z as
\* the source does after each update.
IterateLoop(z, zs, iter, c, limit, stop_squared) ==
    IF IterBelowLimit(iter, limit) /\ InsideStopRadius(Squares(z), stop_squared)
    THEN LET next == Step(z, Squares(z), c)
         IN  IterateLoop(next, Append(zs, next), iter + 1, c, limit, stop_squared)
    ELSE [z |-> z, zs |-> zs]

\* iterate(z, c, limit, escape, stop) -> (zs, escaped)
Iterate(z, c, limit, escape, stop) ==
    LET end == IterateLoop(z, <<>>, 0, c, limit, DyMul(stop, stop))
    IN  [zs |-> end.zs, escaped |-> Escaped(Squares(end.z), DyMul(escape, escape))]

(***************************************************************************)
(* Properties of the intensity mapper.                                     *)
(***************************************************************************)
\* The writer has run map_to_color.
HasMapped(w) == writers[w].state \in {"writing", "finished"}

\* C14: with maximum = 0 the result of map_to_color has the length of counts
\* and every byte is 0, for every (counts, maximum) pair the histogram
\* produces.
C14_ZeroMaximumIsBlack ==
    \A w \in 1..Len(writers) :
        (HasMapped(w) /\ writers[w].maximum = 0) =>
            /\ DOMAIN PixelBuffer(w) = DOMAIN writers[w].data
            /\ \A i \in DOMAIN PixelBuffer(w) : PixelBuffer(w)[i] = 0

(***************************************************************************)
(* SpecCalls: one call of f64_to_index, map_to_color or iterate on inputs  *)
(* drawn from small sets.                                                  *)
(***************************************************************************)
MaxCells == 2       \* map_to_color: counts of 0..MaxCells cells
MaxLimit == 3       \* iterate: limits 0..MaxLimit

\* f64_to_index: points, (min, max) pairs and sizes; coordinates in thousandths.
IndexPoints == {-2001, -2000, -1000, 0, 1999, 2000, 2001}

IndexRanges == {<<-2000, 2000>>, <<0, 0>>, <<2000, -2000>>, <<-1000, 1000>>}

IndexSizes == {1, 2, 100}

\* map_to_color: counts and maxima.  49 of 98 is exactly one half.
CountChoices == {0, 1, 49, 98}

MaximumChoices == {0, 1, 98}

\* iterate: z, c with coordinates among -2, -1/2, 0, 1/2, 2; escape and stop
\* radius as render_nebulabrot passes them.
Halves == {Dy(k, 1) : k \in {-4, -1, 0, 1, 4}}

ZChoices == {[re |-> Dy(0, 0), im |-> Dy(0, 0)], [re |-> Dy(3, 0), im |-> Dy(0, 0)]}

CChoices == [re : Halves, im : Halves]

EscapeRadius == Dy(2, 0)

StopRadius == Dy(3, 0)

InitCalls ==
    /\ CallIdle
    /\ SamplerIdle
    /\ ImageIdle
    /\ RenderIdle

CallF64ToIndex ==
    /\ call.fn = "none"
    /\ \E point \in IndexPoints, range \in IndexRanges, size \in IndexSizes :
         call' = [fn  |-> "f64_to_index",
                  arg |-> [point |-> point, min |-> range[1], max |-> range[2],
                           size |-> size],
                  res |-> F64ToIndex(point, range[1], range[2], size)]
    /\ UNCHANGED <<imageVars, bumpVars, renderVars, traceVars, sampler>>

CallMapToColor ==
    /\ call.fn = "none"
    /\ \E k \in 0..MaxCells :
       \E counts \in [0..(k - 1) -> CountChoices], max \in MaximumChoices,
          curve \in CurveChoices :
         call' = [fn  |-> "map_to_color",
                  arg |-> [data |-> counts, maximum |-> max, curve |-> curve],
                  res |-> MapToColor(counts, max, curve)]
    /\ UNCHANGED <<imageVars, bumpVars, renderVars, traceVars, sampler>>

CallIterate ==
    /\ call.fn = "none"
    /\ \E z \in ZChoices, c \in CChoices, limit \in 0..MaxLimit :
         call' = [fn  |-> "iterate",
                  arg |-> [z |-> z, c |-> c, limit |-> limit,
                           escape |-> EscapeRadius, stop |-> StopRadius],
                  res |-> Iterate(z, c, limit, EscapeRadius, StopRadius)]
    /\ UNCHANGED <<imageVars, bumpVars, renderVars, traceVars, sampler>>

NextCalls == CallF64ToIndex \/ CallMapToColor \/ CallIterate

SpecCalls == InitCalls /\ [][NextCalls]_vars

(***************************************************************************)
(* Properties of the pure functions.                                       *)
(***************************************************************************)
\* p = floor(num / den) for den # 0.
IsFloorOf(p, num, den) ==
    LET n == IF den < 0 THEN 0 - num ELSE num
        d == IF den < 0 THEN 0 - den ELSE den
    IN  p * d <= n /\ n < (p + 1) * d

\* (num / den) >= 0 for den # 0.
QuotientNotNegative(num, den) == (den > 0 /\ num >= 0) \/ (den < 0 /\ num <= 0)

\* C13: f64_to_index returns no pixel when lo = hi; otherwise, with
\* interp = (v - lo) / (hi - lo), it returns floor(size * interp) exactly when
\* interp >= 0 and floor(size * interp) < size, and no pixel otherwise.  For
\* [-2.0, 2.0] and size 100: -2.0 gives 0, 1.999 gives 99, 2.0 gives no pixel.
C13_F64ToIndex ==
    call.fn = "f64_to_index" =>
        LET a == call.arg IN
        /\ a.min = a.max => call.res = {}
        /\ a.min # a.max =>
              \A p \in 0..(a.size + 1) :
                  p \in call.res <=>
                      /\ QuotientNotNegative(a.point - a.min, a.max - a.min)
                      /\ IsFloorOf(p, a.size * (a.point - a.min), a.max - a.min)
                      /\ p < a.size
        /\ call.res \subseteq 0..(a.size - 1)
        /\ (a.min = -2000 /\ a.max = 2000 /\ a.size = 100) =>
              /\ a.point = -2000 => call.res = {0}
              /\ a.point = 1999 => call.res = {99}
              /\ a.point = 2000 => call.res = {}

\* C13 witness: 1.999 in [-2.0, 2.0] at size 100 is pixel 99.
C13_Witness ==
    /\ call.fn = "f64_to_index"
    /\ call.arg = [point |-> 1999, min |-> -2000, max |-> 2000, size |-> 100]
    /\ call.res = {99}

\* C15: with curve = 1.0 and maximum >= 1 every byte of map_to_color is
\* min(255, floor(256 * count / maximum)): the maximum maps to 255, zero to
\* 0, and no byte exceeds 255, also for counts above the maximum.
C15_LinearMap ==
    (call.fn = "map_to_color" /\ call.arg.curve = 1000 /\ call.arg.maximum >= 1) =>
        \A i \in DOMAIN call.arg.data :
            LET count == call.arg.data[i] IN
            /\ call.res[i] = Min2(255, (256 * count) \div call.arg.maximum)
            /\ count = call.arg.maximum => call.res[i] = 255
            /\ count = 0 => call.res[i] = 0
            /\ call.res[i] <= 255

IsZeroComplex(z) == z = [re |-> Dy(0, 0), im |-> Dy(0, 0)]

\* C16: from z0 = 0 with limit 0 the trajectory is empty and escaped is
\* false, for every c.
C16_LimitZero ==
    (call.fn = "iterate" /\ IsZeroComplex(call.arg.z) /\ call.arg.limit = 0) =>
        /\ call.res.zs = <<>>
        /\ ~call.res.escaped

\* C16 witness: a call with limit 0 from z0 = 0 for c = (2, 2).
C16_Witness ==
    /\ call.fn = "iterate"
    /\ IsZeroComplex(call.arg.z)
    /\ call.arg.limit = 0
    /\ call.arg.c = [re |-> Dy(2, 0), im |-> Dy(2, 0)]
    /\ call.res = [zs |-> <<>>, escaped |-> FALSE]

\* C17: from z0 = 0 with c = (0, 0), escape radius 2 and stop radius 3 the
\* trajectory has exactly limit points, all (0, 0), and escaped is false.
C17_OriginStays ==
    (/\ call.fn = "iterate"
     /\ IsZeroComplex(call.arg.z)
     /\ IsZeroComplex(call.arg.c)
     /\ call.arg.escape = Dy(2, 0)
     /\ call.arg.stop = Dy(3, 0)) =>
        /\ Len(call.res.zs) = call.arg.limit
        /\ \A i \in 1..Len(call.res.zs) : IsZeroComplex(call.res.zs[i])
        /\ ~call.res.escaped

\* C17 witness: the call for c = (0, 0) with the largest limit has returned
\* that many points.
C17_Witness ==
    /\ call.fn = "iterate"
    /\ IsZeroComplex(call.arg.z)
    /\ IsZeroComplex(call.arg.c)
    /\ call.arg.limit = MaxLimit
    /\ Len(call.res.zs) = MaxLimit

\* C18: from z0 = 0 with c = (2, 2), escape radius 2 and stop radius 3, for
\* every limit >= 1 escaped is true and the trajectory has between 1 and
\* limit points.
C18_FarPointEscapes ==
    (/\ call.fn = "iterate"
     /\ IsZeroComplex(call.arg.z)
     /\ call.arg.c = [re |-> Dy(2, 0), im |-> Dy(2, 0)]
     /\ call.arg.escape = Dy(2, 0)
     /\ call.arg.stop = Dy(3, 0)
     /\ call.arg.limit >= 1) =>
        /\ call.res.escaped
        /\ Len(call.res.zs) >= 1
        /\ Len(call.res.zs) <= call.arg.limit

\* C18 witness: c = (2, 2) with the largest limit: the trajectory stops
\* before the limit, at (2, 2), (2, 10).
C18_Witness ==
    /\ call.fn = "iterate"
    /\ IsZeroComplex(call.arg.z)
    /\ call.arg.c = [re |-> Dy(2, 0), im |-> Dy(2, 0)]
    /\ call.arg.limit = MaxLimit
    /\ call.res.escaped
    /\ call.res.zs = <<[re |-> Dy(2, 0), im |-> Dy(2, 0)],
                       [re |-> Dy(2, 0), im |-> Dy(10, 0)]>>

(***************************************************************************)
(* Properties of the workers and the gather step.                          *)
(***************************************************************************)
\* The sum of the counters of one channel, pixel by pixel.
ChannelSum(d, ch) ==
    SumTo([k \in 0..(width * height - 1) |->
              d[Index(k \div height, k % height, ch, height)]], width * height)

\* bump has just raised a counter.
JustBumped == pc = "bump_max"

\* The gather loop of a pass has just ended.
GatherOver == pc = "intermediates"

\* The pixel (x, y) is the projection of trajectory point z: each coordinate
\* is floor(size * (v + 2) / 4).
ProjectsTo(z, x, y) ==
    /\ IsFloorOf(x, settings.size * (z.re + 2000), 4000)
    /\ IsFloorOf(y, settings.size * (z.im + 2000), 4000)

\* C19: only escaped trajectories are accumulated, each point once and in its
\* own channel: a counter is raised only for the pixel of a trajectory point,
\* a sample that did not escape changes no counter, and after every gather the
\* counters of a channel sum to the number of in-viewport points of the
\* escaped samples of that channel over all passes and thread slots.
C19_OnlyEscapedAccumulated ==
    /\ \A ch \in 0..(CHANNELS - 1) :
         /\ JustBumped => ChannelSum(data, ch) <= channelValid[ch]
         /\ GatherOver => ChannelSum(data, ch) = channelValid[ch]
         /\ pc = "write_final" => ChannelSum(snap.data, ch) = channelValid[ch]
    /\ GatherOver =>
         \A x \in 0..(width - 1), y \in 0..(height - 1), ch \in 0..(CHANNELS - 1) :
            data[Index(x, y, ch, height)] > 0 => \E z \in Points : ProjectsTo(z, x, y)

\* C19 witness: the render returns with one escaped in-viewport point of the
\* green channel counted in the green channel and nowhere else.
C19_Witness ==
    /\ pc = "write_final"
    /\ channelValid = [ch \in 0..(CHANNELS - 1) |-> IF ch = 1 THEN 1 ELSE 0]
    /\ ChannelSum(snap.data, 1) = 1
    /\ ChannelSum(snap.data, 0) = 0
    /\ ChannelSum(snap.data, 2) = 0

\* C20: each pass runs one task for each pair of thread slot and channel;
\* each task consumes one fresh sampler of settings.samples points, traces
\* them with limits[channel] and sends exactly one batch tagged with its slot
\* and channel; so a completed pass has traced threads * 3 * samples points
\* and its gather step has received threads * 3 batches.
C20_PassRunsAllTasks ==
    /\ \A w \in Workers :
         /\ workers[w].channel > 0 =>
                workers[w].limit = settings.limits[workers[w].channel]
         /\ workers[w].state = "finished" => workers[w].channel = CHANNELS
    /\ \A i, j \in 1..Len(queue) :
         (queue[i].thread = queue[j].thread /\ queue[i].channel = queue[j].channel)
             => i = j
    /\ \A i \in 1..Len(queue) :
         /\ queue[i].pass = pass
         /\ <<queue[i].pass, queue[i].thread, queue[i].channel>> \notin accumulated
    /\ pc \in {"intermediates", "callback"} =>
         /\ received = threads * CHANNELS
         /\ accumulated = BatchesUpTo(pass)
         /\ traced = pass * threads * CHANNELS * settings.samples
         /\ Len(workers) = pass * threads
    /\ RenderReturned =>
         traced = settings.passes * threads * CHANNELS * settings.samples

\* C20 witness: the second pass of two threads is complete: six batches were
\* received in its gather step and 2 * 2 * 3 * 100 points traced so far.
C20_Witness ==
    /\ pc = "callback"
    /\ pass = 2
    /\ threads = 2
    /\ settings.samples = 100
    /\ received = 6
    /\ traced = 1200

(***************************************************************************)
(* Properties of the trajectory iterate returns.                           *)
(***************************************************************************)
\* |z|^2: the sum of the squares of the two coordinates.
NormSquared(z) == DyAdd(DyMul(z.re, z.re), DyMul(z.im, z.im))

\* The last entry of a non-empty trajectory.
Last(zs) == zs[Len(zs)]

\* A call of iterate from z0 = 0 has returned.
IterateFromZero == call.fn = "iterate" /\ IsZeroComplex(call.arg.z)

\* C21: from z0 = 0 the trajectory has at most limit entries, every entry
\* but the last has a squared magnitude below stop * stop, and a trajectory
\* of fewer than limit entries ends with an entry whose squared magnitude
\* is at least stop * stop.
C21_StopsAtStopRadius ==
    IterateFromZero =>
        LET zs           == call.res.zs
            stop_squared == DyMul(call.arg.stop, call.arg.stop)
        IN  /\ Len(zs) <= call.arg.limit
            /\ \A i \in 1..(Len(zs) - 1) : DyLess(NormSquared(zs[i]), stop_squared)
            /\ Len(zs) < call.arg.limit =>
                 /\ zs # <<>>
                 /\ ~DyLess(NormSquared(Last(zs)), stop_squared)

\* C21 witness: c = (2, 0) with the largest limit: the trajectory is 2, 6 and
\* ends before the limit, its first entry inside and its last entry outside
\* the stop radius.
C21_Witness ==
    /\ IterateFromZero
    /\ call.arg.c = [re |-> Dy(2, 0), im |-> Dy(0, 0)]
    /\ call.arg.limit = MaxLimit
    /\ Len(call.res.zs) = 2
    /\ Len(call.res.zs) < call.arg.limit
    /\ NormSquared(call.res.zs[1]) = Dy(4, 0)
    /\ NormSquared(Last(call.res.zs)) = Dy(36, 0)

\* A call of iterate as render_nebulabrot makes it has returned: z0 = 0,
\* escape radius 2, stop radius 3.
IterateAsRendered ==
    /\ IterateFromZero
    /\ call.arg.escape = Dy(2, 0)
    /\ call.arg.stop = Dy(3, 0)

\* C24: with z0 = 0, escape radius 2 and stop radius 3, a trajectory of fewer
\* than limit entries is classified as escaped, and escaped is true exactly
\* when the trajectory is not empty and the squared magnitude of its last
\* entry is above 4.
C24_EscapedFromLastEntry ==
    IterateAsRendered =>
        LET zs == call.res.zs
        IN  /\ Len(zs) < call.arg.limit => call.res.escaped
            /\ call.res.escaped <=>
                 (zs # <<>> /\ DyLess(Dy(4, 0), NormSquared(Last(zs))))

\* C24 witness: c = (-2, 2) with the largest limit: the trajectory (-2, 2),
\* (-2, -6) ends before the limit and is classified as escaped.
C24_Witness ==
    /\ IterateAsRendered
    /\ call.arg.c = [re |-> Dy(-2, 0), im |-> Dy(2, 0)]
    /\ call.arg.limit = MaxLimit
    /\ call.res.zs = <<[re |-> Dy(-2, 0), im |-> Dy(2, 0)],
                       [re |-> Dy(-2, 0), im |-> Dy(-6, 0)]>>
    /\ Len(call.res.zs) < call.arg.limit
    /\ call.res.escaped

(***************************************************************************)
(* Properties of the output file.                                          *)
(***************************************************************************)
\* The output file is the complete image of the final render.
FileIsFinalImage == file = [tag |-> FinalTag, complete |-> TRUE]

\* C22: under every interleaving of the writer threads, when main has
\* returned the output file is the complete final image: no writer of an
\* intermediate snapshot has created, truncated or written the path after
\* the final writer finished.
C22_FileIsFinalAtExit == pc = "exited" => FileIsFinalImage

(***************************************************************************)
(* Properties of the writers of the histogram.                             *)
(***************************************************************************)
\* The orchestrator is inside raw_image.bump.
BumpInProgress == pc \in {"bump", "bump_max"}

\* Every worker thread ever spawned has ended normally and has been joined.
AllWorkersJoined ==
    \A w \in Workers : workers[w].state = "finished" /\ workers[w].joined

\* A step of a worker thread: a worker that exists before and after the step
\* has moved on to its next channel, has finished or has panicked.
WorkerStep ==
    /\ Len(workers') = Len(workers)
    /\ \E w \in Workers :
         <<workers'[w].state, workers'[w].channel>> # <<workers[w].state, workers[w].channel>>

\* A step that writes the histogram is a step of bump in the orchestrator:
\* the fetch_add on the cell or the fetch_max on maximum.
HistogramWrittenByBump ==
    /\ data' # data => (pc = "bump" /\ pc' = "bump_max" /\ maximum' = maximum)
    /\ maximum' # maximum => (pc = "bump_max" /\ pc' = "points" /\ data' = data)
    /\ WorkerStep => (data' = data /\ maximum' = maximum /\ pc' = pc)

\* C23: the histogram is written by the orchestrator only.  A worker step
\* leaves the histogram alone (workers only send batches), every write of
\* the histogram is a step of the one bump call of the gather loop, and
\* while that call is in progress every worker of every pass has ended and
\* has been joined.
C23_OnlyOrchestratorBumps ==
    /\ [](BumpInProgress => (AllWorkersJoined /\ joined = Len(handles)))
    /\ [][HistogramWrittenByBump]_vars

\* C23 witness: in the second pass of a render with two threads a bump is
\* between its fetch_add and its fetch_max and all four workers have been
\* joined.
C23_Witness ==
    /\ pc = "bump_max"
    /\ pass = 2
    /\ threads = 2
    /\ Len(workers) = 4
    /\ AllWorkersJoined
    /\ SumTo(data, DataLen(data)) = 1

====
